---- MODULE Spec2Model ----
(***************************************************************************)
(* Model of the scoring and projection engine of crypto_tracker.py.        *)
(*                                                                         *)
(* The engine is a set of pure functions over an already fetched market    *)
(* snapshot (market_data for a coin, info for a stock) and a historical    *)
(* series.  Init draws the snapshot and the series; every action applies   *)
(* one function of the engine to them and stores what it returned, or the  *)
(* exception it raised, in result.                                         *)
(*                                                                         *)
(* Numbers.  Python floats are modelled by exact rationals <<num, den>>    *)
(* with den > 0.  Market caps of a snapshot are counted in units of        *)
(* 100,000,000 USD.  An optional value (a dict key that may be missing or  *)
(* None) is the empty tuple when absent and a one-element tuple when       *)
(* present.                                                                *)
(***************************************************************************)
EXTENDS Integers, Sequences, FiniteSets, TLC

VARIABLES market_data, info, historical, result

\* The pages (run_crypto_analysis, run_crypto_screener, run_stock_screener)
\* are scripts that Streamlit runs again from the top on every interaction:
\* session_state is st.session_state, which survives the reruns, widgets
\* holds the current values of the input widgets of the page, and display is
\* what the latest run rendered.
VARIABLES session_state, widgets, display

vars == <<market_data, info, historical, result, session_state, widgets, display>>

-----------------------------------------------------------------------------
(* Bounds of the model *)

MaxSupply == 4          \* supplies range over 0..MaxSupply
MaxLen == 3             \* longest historical series
MaxVal == 21            \* largest value of a historical series
MaxPrice == 2           \* largest price / current / target argument
MaxWideSupply == 21     \* supplies of the scarcity specification, in millions

-----------------------------------------------------------------------------
(* Python values *)

None == <<>>
Some(v) == <<v>>

\* dict.get(key, default) on a key that may be missing
Get(x, default) == IF x = None THEN default ELSE x[1]

\* truth value of an optional number: None and 0 are falsy
Truthy(x) == x # None /\ x[1] # 0

\* the outcome of a call: a returned value or a raised exception
Return(v) == [exc |-> "none", value |-> v]
Raise(e) == [exc |-> e]

Returned(r) == r.exc = "none"

\* the quotient truncated instead of rounded
RoundDown(n, d) == n \div d

\* round(n / d) for n >= 0, d > 0: Python 3 rounds halves to the even integer
RoundHalfEven(n, d) ==
    LET q == n \div d
        r == n % d
    IN  IF 2 * r < d THEN q
        ELSE IF 2 * r > d THEN q + 1
        ELSE IF q % 2 = 0 THEN q ELSE q + 1

-----------------------------------------------------------------------------
(* calculate_scarcity_score *)

IndeterminateText == "Indeterminate (No defined max supply)"
CirculationText == "% of max supply is in circulation."

\* description: the text and, when there is one, the percentage in hundredths
Description(pct, text) == [pct |-> pct, text |-> text]

\* only a missing max_supply is indeterminate: a zero one reaches the division
calculate_scarcity_score_none_only(md) ==
    LET max_supply == md.max_supply
        circulating_supply == md.circulating_supply
    IN  IF max_supply = None
        THEN Return([score |-> 0, description |-> Description(None, IndeterminateText)])
        ELSE IF circulating_supply = None
        THEN Raise("TypeError")
        ELSE IF max_supply[1] = 0
        THEN Raise("ZeroDivisionError")
        ELSE Return([score |-> RoundHalfEven(10 * circulating_supply[1], max_supply[1]),
                     description |->
                        Description(Some(RoundHalfEven(10000 * circulating_supply[1],
                                                       max_supply[1])),
                                    CirculationText)])

calculate_scarcity_score(md) ==
    LET max_supply == md.max_supply
        circulating_supply == md.circulating_supply
    IN  IF ~Truthy(max_supply) \/ max_supply = Some(0)
        THEN Return([score |-> 0, description |-> Description(None, IndeterminateText)])
        ELSE IF circulating_supply = None
        THEN Raise("TypeError")      \* None / number
        ELSE Return([score |-> RoundHalfEven(10 * circulating_supply[1], max_supply[1]),
                     description |->
                        Description(Some(RoundHalfEven(10000 * circulating_supply[1],
                                                       max_supply[1])),
                                    CirculationText)])

-----------------------------------------------------------------------------
(* Rationals <<num, den>>, den > 0 *)

RAdd(a, b) == <<a[1] * b[2] + b[1] * a[2], a[2] * b[2]>>

RECURSIVE RSum(_)
RSum(rs) == IF rs = <<>> THEN <<0, 1>> ELSE RAdd(Head(rs), RSum(Tail(rs)))

\* sum(rates) / len(rates)
Mean(rs) == LET s == RSum(rs) IN <<s[1], s[2] * Len(rs)>>

\* a > p / q, for q > 0
RGreater(a, p, q) == a[1] * q > p * a[2]

RPositive(a) == a[1] > 0

-----------------------------------------------------------------------------
(* The growth-rate loops.  The source has four copies of the loop, one in   *)
(* each function that needs the rates; each copy is modelled on its own.    *)
(* s is the sequence of values of the series, i the loop index (1-based).   *)

RECURSIVE predict_daily_growth_rates(_, _)
predict_daily_growth_rates(s, i) ==
    IF i > Len(s) THEN <<>>
    ELSE LET prev_cap == s[i - 1]
             current_cap == s[i]
         IN  (IF prev_cap > 0 THEN <<<<current_cap - prev_cap, prev_cap>>>> ELSE <<>>)
                \o predict_daily_growth_rates(s, i + 1)

\* a pair with a previous value <= 0 gets a zero rate instead of being skipped
RECURSIVE final_daily_growth_rates_zero_filled(_, _)
final_daily_growth_rates_zero_filled(s, i) ==
    IF i > Len(s) THEN <<>>
    ELSE LET prev_cap == s[i - 1]
             current_cap == s[i]
         IN  (IF prev_cap > 0 THEN <<<<current_cap - prev_cap, prev_cap>>>> ELSE <<<<0, 1>>>>)
                \o final_daily_growth_rates_zero_filled(s, i + 1)

RECURSIVE final_daily_growth_rates(_, _)
final_daily_growth_rates(s, i) ==
    IF i > Len(s) THEN <<>>
    ELSE LET prev_cap == s[i - 1]
             current_cap == s[i]
         IN  (IF prev_cap > 0 THEN <<<<current_cap - prev_cap, prev_cap>>>> ELSE <<>>)
                \o final_daily_growth_rates(s, i + 1)

RECURSIVE stock_daily_growth_rates(_, _)
stock_daily_growth_rates(s, i) ==
    IF i > Len(s) THEN <<>>
    ELSE LET prev_price == s[i - 1]
             current_p == s[i]
         IN  (IF prev_price > 0 THEN <<<<current_p - prev_price, prev_price>>>> ELSE <<>>)
                \o stock_daily_growth_rates(s, i + 1)

RECURSIVE stock_final_daily_growth_rates(_, _)
stock_final_daily_growth_rates(s, i) ==
    IF i > Len(s) THEN <<>>
    ELSE LET prev_price == s[i - 1]
             current_p == s[i]
         IN  (IF prev_price > 0 THEN <<<<current_p - prev_price, prev_price>>>> ELSE <<>>)
                \o stock_final_daily_growth_rates(s, i + 1)

-----------------------------------------------------------------------------
(* predict_time_to_target and analyze_stock_growth_and_time                 *)
(*                                                                         *)
(* days_to_target = log(target / current) / log(1 + avg_daily_growth) is a  *)
(* positive real whenever it is computed (target > current > 0 and          *)
(* avg_daily_growth > 0).  The model does not evaluate the logarithms: the  *)
(* quotient is an argument t of the operator, a whole number of days that   *)
(* the caller draws from DaysValues.                                       *)

DaysPerYear == 365
DaysPerMonth == 30
CapYears == 25

DaysValues ==
    {1, DaysPerMonth, DaysPerMonth + 1, DaysPerYear, DaysPerYear + 1,
     DaysPerYear * CapYears, DaysPerYear * CapYears + 1}

\* a time string: the text and, when one is formatted into it, the amount in
\* tenths ("%.1f"); log tells whether math.log was evaluated on the way
TimeStr(text, amount, log) == [text |-> text, amount |-> amount, log |-> log]

AtOrBelowText == "Target price is at or below the current price."
NotEnoughText == "Not enough historical data to calculate growth rate."
NonPositiveText ==
    "Historical growth rate is zero or negative. Target may not be reached on this trajectory."
MathErrorText ==
    "Could not compute a time estimate due to a mathematical error (e.g., log of negative number)."

\* lines 166-173: the time string for days_to_target = t
predict_time_str(t) ==
    IF t > DaysPerYear * CapYears
    THEN TimeStr("Over 25 years at current growth rate.", None, TRUE)
    ELSE IF t > DaysPerYear
    THEN TimeStr("Approx. %.1f years", Some(RoundHalfEven(10 * t, DaysPerYear)), TRUE)
    ELSE IF t > DaysPerMonth
    THEN TimeStr("Approx. %.1f months", Some(RoundHalfEven(10 * t, DaysPerMonth)), TRUE)
    ELSE TimeStr("Approx. %.1f days", Some(10 * t), TRUE)

\* lines 160-173: the logarithms and what follows them
predict_projection(current_market_cap, target_market_cap, t) ==
    IF current_market_cap = 0
    THEN Raise("ZeroDivisionError")         \* target / 0, not a ValueError
    ELSE IF current_market_cap < 0
    THEN Return(TimeStr(MathErrorText, None, TRUE))     \* log of a negative
    ELSE Return(predict_time_str(t))

\* the target check compares with < : a target equal to current goes on
predict_time_to_target_strict(historical_caps, current_market_cap, target_market_cap, t) ==
    IF target_market_cap < current_market_cap
    THEN Return(TimeStr(AtOrBelowText, None, FALSE))
    ELSE IF historical_caps = None
    THEN Raise("TypeError")
    ELSE LET daily_growth_rates == predict_daily_growth_rates(historical_caps[1], 2)
         IN  IF daily_growth_rates = <<>>
             THEN Return(TimeStr(NotEnoughText, None, FALSE))
             ELSE IF ~RPositive(Mean(daily_growth_rates))
             THEN Return(TimeStr(NonPositiveText, None, FALSE))
             ELSE predict_projection(current_market_cap, target_market_cap, t)

\* the growth check compares with < 0 : a zero average goes on to the logarithms
predict_time_to_target_zero_growth(historical_caps, current_market_cap, target_market_cap, t) ==
    IF target_market_cap <= current_market_cap
    THEN Return(TimeStr(AtOrBelowText, None, FALSE))
    ELSE IF historical_caps = None
    THEN Raise("TypeError")
    ELSE LET daily_growth_rates == predict_daily_growth_rates(historical_caps[1], 2)
         IN  IF daily_growth_rates = <<>>
             THEN Return(TimeStr(NotEnoughText, None, FALSE))
             ELSE IF Mean(daily_growth_rates)[1] < 0
             THEN Return(TimeStr(NonPositiveText, None, FALSE))
             ELSE predict_projection(current_market_cap, target_market_cap, t)

predict_time_to_target(historical_caps, current_market_cap, target_market_cap, t) ==
    IF target_market_cap <= current_market_cap
    THEN Return(TimeStr(AtOrBelowText, None, FALSE))
    ELSE IF historical_caps = None
    THEN Raise("TypeError")                 \* len(None)
    ELSE LET daily_growth_rates == predict_daily_growth_rates(historical_caps[1], 2)
         IN  IF daily_growth_rates = <<>>
             THEN Return(TimeStr(NotEnoughText, None, FALSE))
             ELSE IF ~RPositive(Mean(daily_growth_rates))
             THEN Return(TimeStr(NonPositiveText, None, FALSE))
             ELSE predict_projection(current_market_cap, target_market_cap, t)

StockAtOrBelowText == "Target is at or below current price."
StockNotEnoughText == "Not enough data for prediction."
StockNegativeText == "Negative historical growth."
StockMathErrorText == "Could not compute time estimate."

\* the second element of the returned pair: "N/A" or the required growth
NA == [kind |-> "N/A"]
Ratio(n, d) == [kind |-> "ratio", num |-> n, den |-> d]

\* the thresholds compared with >= instead of >
stock_time_str_inclusive(t) ==
    IF t >= DaysPerYear * CapYears THEN TimeStr("Over 25 years", None, TRUE)
    ELSE IF t >= DaysPerYear
    THEN TimeStr("Approx. %.1f years", Some(RoundHalfEven(10 * t, DaysPerYear)), TRUE)
    ELSE IF t >= DaysPerMonth
    THEN TimeStr("Approx. %.1f months", Some(RoundHalfEven(10 * t, DaysPerMonth)), TRUE)
    ELSE TimeStr("Approx. %.1f days", Some(10 * t), TRUE)

\* lines 301-304: the time string for days_to_target = t
stock_time_str(t) ==
    IF t > DaysPerYear * CapYears THEN TimeStr("Over 25 years", None, TRUE)
    ELSE IF t > DaysPerYear
    THEN TimeStr("Approx. %.1f years", Some(RoundHalfEven(10 * t, DaysPerYear)), TRUE)
    ELSE IF t > DaysPerMonth
    THEN TimeStr("Approx. %.1f months", Some(RoundHalfEven(10 * t, DaysPerMonth)), TRUE)
    ELSE TimeStr("Approx. %.1f days", Some(10 * t), TRUE)

\* lines 294-306: the required growth, the logarithms and what follows them
stock_projection(current_price, target_price, t) ==
    IF current_price = 0
    THEN Raise("ZeroDivisionError")         \* target_price / 0, outside the try
    ELSE IF current_price < 0
    THEN Return(<<TimeStr(StockMathErrorText, None, TRUE), NA>>)
    ELSE Return(<<stock_time_str(t), Ratio(target_price, current_price)>>)

analyze_stock_growth_and_time(historical_prices, current_price, target_price, t) ==
    IF target_price <= current_price
    THEN Return(<<TimeStr(StockAtOrBelowText, None, FALSE), NA>>)
    ELSE IF historical_prices = None
    THEN Raise("TypeError")                 \* len(None)
    ELSE LET daily_growth_rates == stock_daily_growth_rates(historical_prices[1], 2)
         IN  IF daily_growth_rates = <<>>
             THEN Return(<<TimeStr(StockNotEnoughText, None, FALSE), NA>>)
             ELSE IF ~RPositive(Mean(daily_growth_rates))
             THEN Return(<<TimeStr(StockNegativeText, None, FALSE), NA>>)
             ELSE stock_projection(current_price, target_price, t)

-----------------------------------------------------------------------------
(* generate_final_analysis *)

Reason(marker, text) == [marker |-> marker, text |-> text]

\* the outcome of one section of a scorer: the points it adds to score and
\* the reasons it appends
Part(points, reasons) == [points |-> points, reasons |-> reasons]

StrongScarcity ==
    Reason("[+]", "Strong Scarcity: Asset has a fixed supply, similar to Bitcoin.")
ModerateScarcity ==
    Reason("[~]", "Moderate Scarcity: Asset has a defined supply but much is yet to be released.")
WeakScarcity ==
    Reason("[-]", "Weak Scarcity: Asset is inflationary or has no defined max supply.")
HighGrowth ==
    Reason("[+]", "High Growth: Network value has shown strong positive momentum.")
PositiveGrowth ==
    Reason("[~]", "Positive Growth: Network value is growing, but slowly.")
NegativeGrowth ==
    Reason("[-]", "Negative Growth: Network value has been declining recently.")
NoNetworkGrowth ==
    Reason("[-]", "Could not determine network growth.")
BuiltInCatalyst ==
    Reason("[+]", "Built-in Catalyst: Has a supply-reduction event (halving).")
HighRewardPotential ==
    Reason("[+]", "High Reward Potential: Lower market cap allows for more explosive growth.")
LimitedUpside ==
    Reason("[-]", "Limited Upside: Very large market cap may limit exponential returns.")

\* 1. Scarcity Analysis
ScarcityPart(scarcity_score) ==
    Part(scarcity_score * 4,
         IF scarcity_score >= 8 THEN <<StrongScarcity>>
         ELSE IF scarcity_score >= 5 THEN <<ModerateScarcity>>
         ELSE <<WeakScarcity>>)

\* a list that is neither None nor empty
NonEmptyList(l) == l # None /\ l[1] # <<>>

\* 2. Network Growth Analysis
NetworkGrowthPart(historical_caps, current_market_cap) ==
    IF NonEmptyList(historical_caps) /\ current_market_cap > 0
    THEN LET daily_growth_rates == final_daily_growth_rates(historical_caps[1], 2)
         IN  IF daily_growth_rates # <<>>
             THEN LET avg_daily_growth == Mean(daily_growth_rates)
                  IN  IF RGreater(avg_daily_growth, 5, 1000) THEN Part(40, <<HighGrowth>>)
                      ELSE IF RPositive(avg_daily_growth) THEN Part(20, <<PositiveGrowth>>)
                      ELSE Part(-20, <<NegativeGrowth>>)
             ELSE Part(0, <<>>)
    ELSE Part(0, <<NoNetworkGrowth>>)

\* symbol.lower()
Lower(symbol) ==
    CASE symbol = "BTC" -> "btc"
      [] symbol = "Kas" -> "kas"
      [] OTHER -> symbol

HalvingSymbols == {"btc", "ltc", "kas", "bch"}

\* the market cap thresholds, in units of 100,000,000 USD
SmallCapLimit == 10
LargeCapLimit == 500

\* 3. Catalyst & Market Cap Modifier
CatalystPart(symbol, current_market_cap) ==
    LET catalyst == IF Lower(symbol) \in HalvingSymbols
                    THEN Part(10, <<BuiltInCatalyst>>) ELSE Part(0, <<>>)
        cap == IF current_market_cap < SmallCapLimit THEN Part(10, <<HighRewardPotential>>)
               ELSE IF current_market_cap > LargeCapLimit THEN Part(-10, <<LimitedUpside>>)
               ELSE Part(0, <<>>)
    IN  Part(catalyst.points + cap.points, catalyst.reasons \o cap.reasons)

Min(a, b) == IF a < b THEN a ELSE b
Max(a, b) == IF a > b THEN a ELSE b

\* the clamp without its lower end
ClampUpperOnly(score) == Min(100, score)

\* max(0, min(100, score))
Clamp(score) == Max(0, Min(100, score))

\* the thresholds compared with > instead of >=
CryptoGradeStrict(score) ==
    IF score > 90
    THEN <<"A+", "Exceptional Potential. Displays very strong fundamentals across all key areas.">>
    ELSE IF score > 80
    THEN <<"A", "Strong Potential. A solid candidate that scores well in most areas.">>
    ELSE IF score > 70
    THEN <<"B+", "Good Potential. Shows positive signals but may have some weaknesses.">>
    ELSE IF score > 60
    THEN <<"B", "Moderate Potential. An average candidate that warrants caution.">>
    ELSE IF score > 50
    THEN <<"C", "Speculative. Lacks a solid foundation in key areas.">>
    ELSE <<"D", "High-Risk. Shows significant red flags in its fundamental data.">>

CryptoGrade(score) ==
    IF score >= 90
    THEN <<"A+", "Exceptional Potential. Displays very strong fundamentals across all key areas.">>
    ELSE IF score >= 80
    THEN <<"A", "Strong Potential. A solid candidate that scores well in most areas.">>
    ELSE IF score >= 70
    THEN <<"B+", "Good Potential. Shows positive signals but may have some weaknesses.">>
    ELSE IF score >= 60
    THEN <<"B", "Moderate Potential. An average candidate that warrants caution.">>
    ELSE IF score >= 50
    THEN <<"C", "Speculative. Lacks a solid foundation in key areas.">>
    ELSE <<"D", "High-Risk. Shows significant red flags in its fundamental data.">>

\* the returned tuple; score stands for the string "<score>/100"
Analysis(score, grade, reasons) ==
    [score |-> score, grade |-> grade[1], summary |-> grade[2], reasons |-> reasons]

\* the sum of the sub-scores before the clamp, for a call that does not raise
CryptoRawScore(symbol, md, historical_caps) ==
    LET current_market_cap == Get(md.market_cap, 0)
    IN  ScarcityPart(calculate_scarcity_score(md).value.score).points
          + NetworkGrowthPart(historical_caps, current_market_cap).points
          + CatalystPart(symbol, current_market_cap).points

generate_final_analysis(symbol, md, historical_caps) ==
    LET scarcity == calculate_scarcity_score(md)
    IN  IF ~Returned(scarcity) THEN scarcity
        ELSE LET current_market_cap == Get(md.market_cap, 0)
                 p1 == ScarcityPart(scarcity.value.score)
                 p2 == NetworkGrowthPart(historical_caps, current_market_cap)
                 p3 == CatalystPart(symbol, current_market_cap)
                 score == Clamp(p1.points + p2.points + p3.points)
             IN  Return(Analysis(score, CryptoGrade(score),
                                 p1.reasons \o p2.reasons \o p3.reasons))

-----------------------------------------------------------------------------
(* analyze_network_growth *)

Infinity == [kind |-> "inf"]
Sqrt(x) == IF x.kind = "inf" THEN Infinity ELSE [kind |-> "sqrt", of |-> x]

\* f"{x:.2f}x": the text is "N/A", "infx" or a number followed by x
Multiple(x) == [text |-> IF x.kind = "inf" THEN "infx" ELSE "%.2fx", of |-> x]
NotApplicable == [text |-> "N/A", of |-> NA]

analyze_network_growth(md, target_price) ==
    LET current_price == Get(md.current_price, 0)
        current_market_cap == Get(md.market_cap, 0)
        circulating_supply == md.circulating_supply
    IN  IF ~Truthy(circulating_supply) \/ circulating_supply = Some(0) \/ current_price = 0
        THEN Return(<<NotApplicable, NotApplicable, NotApplicable>>)
        ELSE LET target_market_cap == target_price * circulating_supply[1]
                 required_growth_multiple ==
                    IF current_market_cap > 0
                    THEN Ratio(target_market_cap, current_market_cap)
                    ELSE Infinity
                 positive == required_growth_multiple.kind = "inf"
                                \/ required_growth_multiple.num > 0
                 required_user_growth_multiple ==
                    IF positive THEN Sqrt(required_growth_multiple) ELSE Ratio(1, 1)
             IN  Return(<<[text |-> "$%,.2f", of |-> Ratio(target_market_cap, 1)],
                          Multiple(required_growth_multiple),
                          Multiple(required_user_growth_multiple)>>)

-----------------------------------------------------------------------------
(* generate_stock_final_analysis *)

StrongStockGrowth ==
    Reason("[+]", "Strong Growth: Stock has shown strong positive momentum.")
PositiveStockGrowth ==
    Reason("[~]", "Positive Growth: Stock has been growing, but slowly.")
NegativeStockGrowth ==
    Reason("[-]", "Negative Growth: Stock price has been declining recently.")
NoStockGrowth ==
    Reason("[-]", "Could not determine growth.")
GoodValue ==
    Reason("[+]", "Good Value (P/E %.2f): Stock appears undervalued.")
FairValue ==
    Reason("[~]", "Fair Value (P/E %.2f): Stock seems reasonably priced.")
HighValuation ==
    Reason("[-]", "High Valuation (P/E %.2f): Stock appears expensive.")
UnknownValuation ==
    Reason("[?]", "Unknown Valuation: P/E ratio is not available.")

\* 1. Business Growth Analysis
BusinessGrowthPart(historical_prices) ==
    IF NonEmptyList(historical_prices)
    THEN LET daily_growth_rates == stock_final_daily_growth_rates(historical_prices[1], 2)
         IN  IF daily_growth_rates # <<>>
             THEN LET avg_daily_growth == Mean(daily_growth_rates)
                  IN  IF RGreater(avg_daily_growth, 3, 1000) THEN Part(60, <<StrongStockGrowth>>)
                      ELSE IF RPositive(avg_daily_growth) THEN Part(30, <<PositiveStockGrowth>>)
                      ELSE Part(-20, <<NegativeStockGrowth>>)
             ELSE Part(0, <<>>)
    ELSE Part(0, <<NoStockGrowth>>)

\* the undervalued band closed at 15
ValuationPartInclusive(pe_ratio) ==
    IF Truthy(pe_ratio)
    THEN IF 0 < pe_ratio[1] /\ pe_ratio[1] <= 15 THEN Part(40, <<GoodValue>>)
         ELSE IF 15 < pe_ratio[1] /\ pe_ratio[1] < 30 THEN Part(20, <<FairValue>>)
         ELSE Part(-10, <<HighValuation>>)
    ELSE Part(0, <<UnknownValuation>>)

\* 2. Valuation Analysis
ValuationPart(pe_ratio) ==
    IF Truthy(pe_ratio)
    THEN IF 0 < pe_ratio[1] /\ pe_ratio[1] < 15 THEN Part(40, <<GoodValue>>)
         ELSE IF 15 <= pe_ratio[1] /\ pe_ratio[1] < 30 THEN Part(20, <<FairValue>>)
         ELSE Part(-10, <<HighValuation>>)
    ELSE Part(0, <<UnknownValuation>>)

StockGrade(score) ==
    IF score >= 85
    THEN <<"A", "Strong Buy Candidate. Displays strong growth and good value.">>
    ELSE IF score >= 70
    THEN <<"B+", "Good Candidate. A solid company that scores well.">>
    ELSE IF score >= 50
    THEN <<"B", "Moderate Candidate. Shows potential but warrants caution.">>
    ELSE IF score >= 40
    THEN <<"C", "Speculative. Lacks a solid foundation in key areas.">>
    ELSE <<"D", "High-Risk. Shows significant red flags in its data.">>

StockRawScore(inf, historical_prices) ==
    BusinessGrowthPart(historical_prices).points + ValuationPart(inf.trailingPE).points

generate_stock_final_analysis(inf, historical_prices) ==
    LET p1 == BusinessGrowthPart(historical_prices)
        p2 == ValuationPart(inf.trailingPE)
        score == Clamp(p1.points + p2.points)
    IN  Return(Analysis(score, StockGrade(score), p1.reasons \o p2.reasons))

-----------------------------------------------------------------------------
(* The inputs *)

OptSupply == {None} \cup {Some(n) : n \in 0..MaxSupply}

CapValues == {0, SmallCapLimit - 1, SmallCapLimit, LargeCapLimit, LargeCapLimit + 1}
OptCap == {None} \cup {Some(c) : c \in CapValues}

OptPrice == {None, Some(0), Some(MaxPrice)}

MarketData ==
    [max_supply : OptSupply, circulating_supply : OptSupply,
     market_cap : OptCap, current_price : OptPrice]

EmptyMarketData ==
    [max_supply |-> None, circulating_supply |-> None,
     market_cap |-> None, current_price |-> None]

PEValues == {-5, 0, 1, 14, 15, 29, 30, 50}
OptPE == {None} \cup {Some(p) : p \in PEValues}

Info == [trailingPE : OptPE, currentPrice : OptPrice]

EmptyInfo == [trailingPE |-> None, currentPrice |-> None]

SeriesValues == {0, MaxVal - 1, MaxVal}

SeqsUpTo(S, n) == UNION {[1..k -> S] : k \in 0..n}

\* a fetched series, or None when the fetch failed
Series == {None} \cup {Some(s) : s \in SeqsUpTo(SeriesValues, MaxLen)}

NoResult == [op |-> "none"]

\* st.session_state of a new session, after main has set the page
NewSession ==
    [page |-> "Home", selected_coin |-> None, found_coins |-> None, found_stocks |-> None]

CryptoDefaultMaxPrice == 1
StockDefaultMaxPrice == 50

\* the values the input widgets have when they are first rendered
DefaultWidgets ==
    [symbol |-> "", crypto_max_price |-> CryptoDefaultMaxPrice,
     stock_max_price |-> StockDefaultMaxPrice]

\* what a run renders: the coin passed to display_crypto_analysis, the ticker
\* passed to display_stock_analysis, and the 'Found N ... Under $max_price'
\* message with the list offered below it
Display(coin, stock, found) == [coin |-> coin, stock |-> stock, found |-> found]
Nothing == Display(None, None, None)

\* no page has been opened
UiIdle ==
    /\ session_state = NewSession
    /\ widgets = DefaultWidgets
    /\ display = Nothing

Init ==
    /\ UiIdle
    /\ \/ market_data \in MarketData /\ info = EmptyInfo
       \/ market_data = EmptyMarketData /\ info \in Info
    /\ historical \in Series
    /\ result = NoResult

-----------------------------------------------------------------------------
(* The calls *)

CalculateScarcityScore ==
    /\ result = NoResult
    /\ result' = [op |-> "calculate_scarcity_score",
                  out |-> calculate_scarcity_score(market_data)]
    /\ UNCHANGED <<market_data, info, historical, session_state, widgets, display>>

PriceArgs == 0..MaxPrice

\* the local days_to_target of a call, once the quotient of logarithms has
\* been assigned to it
LocalDays(out, time_str, t) ==
    IF Returned(out) /\ time_str.log
          /\ time_str.text \notin {MathErrorText, StockMathErrorText}
    THEN Some(t) ELSE None

\* Besides what the call returned, result keeps two locals of the call for
\* the properties: rates is daily_growth_rates once the loop has run, and
\* days_to_target is the quotient of logarithms once it has been computed.
PredictTimeToTarget ==
    /\ result = NoResult
    /\ \E current \in PriceArgs, target \in PriceArgs, t \in DaysValues :
          LET out == predict_time_to_target(historical, current, target, t)
          IN  result' = [op |-> "predict_time_to_target",
                         current |-> current, target |-> target,
                         rates |-> IF target > current /\ historical # None
                                   THEN Some(predict_daily_growth_rates(historical[1], 2))
                                   ELSE None,
                         days_to_target |->
                            IF Returned(out) THEN LocalDays(out, out.value, t) ELSE None,
                         out |-> out]
    /\ UNCHANGED <<market_data, info, historical, session_state, widgets, display>>

AnalyzeStockGrowthAndTime ==
    /\ result = NoResult
    /\ \E current \in PriceArgs, target \in PriceArgs, t \in DaysValues :
          LET out == analyze_stock_growth_and_time(historical, current, target, t)
          IN  result' = [op |-> "analyze_stock_growth_and_time",
                         current |-> current, target |-> target,
                         rates |-> IF target > current /\ historical # None
                                   THEN Some(stock_daily_growth_rates(historical[1], 2))
                                   ELSE None,
                         days_to_target |->
                            IF Returned(out) THEN LocalDays(out, out.value[1], t) ELSE None,
                         out |-> out]
    /\ UNCHANGED <<market_data, info, historical, session_state, widgets, display>>

Symbols == {"btc", "BTC", "eth"}

GenerateFinalAnalysis ==
    /\ result = NoResult
    /\ \E symbol \in Symbols :
          LET out == generate_final_analysis(symbol, market_data, historical)
          IN  result' = [op |-> "generate_final_analysis", symbol |-> symbol,
                         rates |-> IF Returned(out) /\ NonEmptyList(historical)
                                        /\ Get(market_data.market_cap, 0) > 0
                                   THEN Some(final_daily_growth_rates(historical[1], 2))
                                   ELSE None,
                         out |-> out]
    /\ UNCHANGED <<market_data, info, historical, session_state, widgets, display>>

AnalyzeNetworkGrowth ==
    /\ result = NoResult
    /\ \E target_price \in PriceArgs :
          result' = [op |-> "analyze_network_growth", target |-> target_price,
                     out |-> analyze_network_growth(market_data, target_price)]
    /\ UNCHANGED <<market_data, info, historical, session_state, widgets, display>>

GenerateStockFinalAnalysis ==
    /\ result = NoResult
    /\ result' = [op |-> "generate_stock_final_analysis",
                  rates |-> IF NonEmptyList(historical)
                            THEN Some(stock_final_daily_growth_rates(historical[1], 2))
                            ELSE None,
                  out |-> generate_stock_final_analysis(info, historical)]
    /\ UNCHANGED <<market_data, info, historical, session_state, widgets, display>>

Next ==
    \/ CalculateScarcityScore
    \/ GenerateFinalAnalysis
    \/ AnalyzeNetworkGrowth
    \/ GenerateStockFinalAnalysis
    \/ PredictTimeToTarget
    \/ AnalyzeStockGrowthAndTime

Spec == Init /\ [][Next]_vars

-----------------------------------------------------------------------------
(* The scarcity scorer alone, over a wider range of supplies *)

WideSupply == {None} \cup {Some(n) : n \in 0..MaxWideSupply}

ScarcityInit ==
    /\ UiIdle
    /\ market_data \in [max_supply : WideSupply, circulating_supply : WideSupply,
                        market_cap : {None}, current_price : {None}]
    /\ info = EmptyInfo
    /\ historical = None
    /\ result = NoResult

ScarcityNext == CalculateScarcityScore

SpecScarcity == ScarcityInit /\ [][ScarcityNext]_vars

-----------------------------------------------------------------------------
(* The pages.  Every interaction of the user reruns main, which routes to    *)
(* the handler of session_state.page; a button is True only in the run that  *)
(* its click causes.  A handler is an operator from the session state, the   *)
(* widget values and the inputs of the run (the clicked button, what the     *)
(* data provider answered) to the session state it leaves and what it        *)
(* rendered.                                                                *)

Pages == {"Home", "Analyze Crypto", "Analyze Stock", "Crypto Screener", "Stock Screener"}

Rendered(ss, d) == [session_state |-> ss, display |-> d]

\* display_crypto_analysis(coin_id, symbol) and display_stock_analysis(ticker)
display_crypto_analysis(coin_id, symbol) == Display(Some(<<coin_id, symbol>>), None, None)
display_stock_analysis(ticker) == Display(None, Some(ticker), None)

\* coin_list.get(symbol): the (id, name) pairs of a symbol, <<>> for None
CoinMatches(symbol) ==
    CASE symbol = "eth" -> << <<"ethereum", "Ethereum">>,
                              <<"ethereum-wormhole", "Ethereum (Wormhole)">> >>
      [] symbol = "btc" -> << <<"bitcoin", "Bitcoin">>, <<"batcat", "BatCat">> >>
      [] symbol = "kas" -> << <<"kaspa", "Kaspa">> >>
      [] OTHER -> <<>>

\* what the user may type into the symbol input
SymbolInputs == {"", " ETH", "btc", "kas", "zzz"}

\* .lower().strip()
LowerStrip(text) == IF text = " ETH" THEN "eth" ELSE text

Range(f) == {f[i] : i \in DOMAIN f}

\* run_crypto_analysis; coin_list is FALSE when get_coin_list returned None,
\* clicked is the match whose button was clicked, or None
run_crypto_analysis(ss, w, coin_list, clicked) ==
    IF ~coin_list THEN Rendered(ss, Nothing)
    ELSE LET symbol == LowerStrip(w.symbol)
             matches == CoinMatches(symbol)
         IN  IF symbol = "" THEN Rendered(ss, Nothing)
             ELSE IF matches = <<>> THEN Rendered(ss, Nothing)
             ELSE IF Len(matches) = 1
             THEN Rendered(ss, display_crypto_analysis(matches[1][1], matches[1][2]))
             ELSE LET ss1 == IF clicked # None /\ clicked[1] \in Range(matches)
                             THEN [ss EXCEPT !.selected_coin = clicked]
                             ELSE ss
                  IN  IF ss1.selected_coin # None
                      THEN Rendered(ss1, display_crypto_analysis(ss1.selected_coin[1][1],
                                                                 ss1.selected_coin[1][2]))
                      ELSE Rendered(ss1, Nothing)

\* the 'Found N ... Under $max_price' message and the options below it
Found(items, max_price) == [count |-> Len(items), max_price |-> max_price, items |-> items]

\* run_crypto_screener; scan tells whether the scan button was clicked,
\* top_coins is what get_top_coins returned (None or a list of coins), choice
\* the position the selectbox is at
run_crypto_screener(ss, w, scan, top_coins, choice) ==
    LET max_price == w.crypto_max_price
        Under(c) == c.current_price # None /\ c.current_price[1] <= max_price
        failed == scan /\ ~NonEmptyList(top_coins)
        ss1 == IF scan /\ ~failed
               THEN [ss EXCEPT !.found_coins = Some(SelectSeq(top_coins[1], Under))]
               ELSE ss
    IN  IF failed THEN Rendered(ss, Nothing)
        ELSE IF ss1.found_coins = None THEN Rendered(ss1, Nothing)
        ELSE LET found_coins == ss1.found_coins[1]
             IN  IF found_coins = <<>> THEN Rendered(ss1, Nothing)
                 ELSE LET selected_coin == found_coins[Min(choice, Len(found_coins))]
                      IN  Rendered(ss1,
                                   [display_crypto_analysis(selected_coin.id, selected_coin.symbol)
                                      EXCEPT !.found = Some(Found(found_coins, max_price))])

\* the tickers that the stock screener scans
SP500_TICKERS == <<"AAPL", "MSFT">>

\* the loop of lines 540-544 from ticker i on; stock_data[i] is what
\* get_stock_data returned for ticker i (None or its info)
RECURSIVE found_stocks_from(_, _, _)
found_stocks_from(stock_data, max_price, i) ==
    IF i > Len(SP500_TICKERS) THEN <<>>
    ELSE (IF stock_data[i] # None /\ Truthy(stock_data[i][1].currentPrice)
              /\ stock_data[i][1].currentPrice[1] <= max_price
          THEN <<stock_data[i][1]>> ELSE <<>>)
            \o found_stocks_from(stock_data, max_price, i + 1)

\* run_stock_screener
run_stock_screener(ss, w, scan, stock_data, choice) ==
    LET max_price == w.stock_max_price
        ss1 == IF scan
               THEN [ss EXCEPT !.found_stocks = Some(found_stocks_from(stock_data, max_price, 1))]
               ELSE ss
    IN  IF ss1.found_stocks = None THEN Rendered(ss1, Nothing)
        ELSE LET found_stocks == ss1.found_stocks[1]
             IN  IF found_stocks = <<>> THEN Rendered(ss1, Nothing)
                 ELSE LET selected_stock == found_stocks[Min(choice, Len(found_stocks))]
                      IN  Rendered(ss1,
                                   [display_stock_analysis(selected_stock.symbol)
                                      EXCEPT !.found = Some(Found(found_stocks, max_price))])

\* the inputs of a run
NoClicks ==
    [coin_list |-> TRUE, clicked |-> None, scan |-> FALSE,
     top_coins |-> None, stock_data |-> <<None, None>>, choice |-> 1]

\* the page routing of main: a run of the handler of the current page
main(ss, w, in) ==
    IF ss.page = "Analyze Crypto"
    THEN run_crypto_analysis(ss, w, in.coin_list, in.clicked)
    ELSE IF ss.page = "Crypto Screener"
    THEN run_crypto_screener(ss, w, in.scan, in.top_coins, in.choice)
    ELSE IF ss.page = "Stock Screener"
    THEN run_stock_screener(ss, w, in.scan, in.stock_data, in.choice)
    ELSE Rendered(ss, Nothing)       \* Home; Analyze Stock with an empty ticker

\* one run of the script with the widget values w and the inputs in
Run(ss, w, in) ==
    LET r == main(ss, w, in)
    IN  /\ session_state' = r.session_state
        /\ display' = r.display
        /\ widgets' = w
        /\ UNCHANGED <<market_data, info, historical, result>>

UiPrices == 0..MaxPrice
OptUiPrice == {None} \cup {Some(p) : p \in UiPrices}

Choices == 1..Len(SP500_TICKERS)

\* what get_top_coins may return
TopCoins ==
    {None, Some(<<>>)} \cup
    {Some(<<[id |-> "dogecoin", symbol |-> "doge", current_price |-> p1],
            [id |-> "tron", symbol |-> "trx", current_price |-> p2]>>) :
        p1 \in OptUiPrice, p2 \in OptUiPrice}

\* what get_stock_data may return for the tickers
StockData ==
    {<<d1, d2>> :
        d1 \in {None} \cup {Some([symbol |-> SP500_TICKERS[1], currentPrice |-> p]) :
                              p \in OptUiPrice},
        d2 \in {None} \cup {Some([symbol |-> SP500_TICKERS[2], currentPrice |-> p]) :
                              p \in OptUiPrice}}

\* a sidebar button: the widgets of a page that is left are forgotten
Navigate ==
    /\ session_state.page \in Pages
    /\ \E page \in Pages, coin_list \in BOOLEAN :
          Run([session_state EXCEPT !.page = page],
              IF page = session_state.page THEN widgets ELSE DefaultWidgets,
              [NoClicks EXCEPT !.coin_list = coin_list])

\* the symbol input of run_crypto_analysis is edited
EnterSymbol ==
    /\ session_state.page = "Analyze Crypto"
    /\ \E text \in SymbolInputs, coin_list \in BOOLEAN :
          Run(session_state, [widgets EXCEPT !.symbol = text],
              [NoClicks EXCEPT !.coin_list = coin_list])

\* one of the buttons of the disambiguation list is clicked
ClickMatch ==
    /\ session_state.page = "Analyze Crypto"
    /\ Len(CoinMatches(LowerStrip(widgets.symbol))) > 1
    /\ \E c \in Range(CoinMatches(LowerStrip(widgets.symbol))), coin_list \in BOOLEAN :
          Run(session_state, widgets,
              [NoClicks EXCEPT !.coin_list = coin_list, !.clicked = Some(c)])

\* the maximum price of the crypto screener is edited, or another coin is
\* selected in its selectbox
EditCryptoScreener ==
    /\ session_state.page = "Crypto Screener"
    /\ \E max_price \in UiPrices, choice \in Choices :
          Run(session_state, [widgets EXCEPT !.crypto_max_price = max_price],
              [NoClicks EXCEPT !.choice = choice])

\* the scan button of the crypto screener is clicked
ScanCryptos ==
    /\ session_state.page = "Crypto Screener"
    /\ \E top_coins \in TopCoins :
          Run(session_state, widgets,
              [NoClicks EXCEPT !.scan = TRUE, !.top_coins = top_coins])

\* the maximum price of the stock screener is edited, or another stock is
\* selected in its selectbox
EditStockScreener ==
    /\ session_state.page = "Stock Screener"
    /\ \E max_price \in UiPrices \cup {StockDefaultMaxPrice}, choice \in Choices :
          Run(session_state, [widgets EXCEPT !.stock_max_price = max_price],
              [NoClicks EXCEPT !.choice = choice])

\* the scan button of the stock screener is clicked
ScanStocks ==
    /\ session_state.page = "Stock Screener"
    /\ \E stock_data \in StockData :
          Run(session_state, widgets,
              [NoClicks EXCEPT !.scan = TRUE, !.stock_data = stock_data])

UiInit ==
    /\ UiIdle
    /\ market_data = EmptyMarketData
    /\ info = EmptyInfo
    /\ historical = None
    /\ result = NoResult

UiNext ==
    \/ Navigate
    \/ EnterSymbol
    \/ ClickMatch
    \/ EditCryptoScreener
    \/ ScanCryptos
    \/ EditStockScreener
    \/ ScanStocks

SpecUi == UiInit /\ [][UiNext]_vars

-----------------------------------------------------------------------------
(* Properties *)

IsCall(op) == result.op = op
Completed(op) == IsCall(op) /\ Returned(result.out)

\* r occurs in the list of reasons l
InReasons(r, l) == \E i \in DOMAIN l : l[i] = r

\* C1: whenever generate_final_analysis or generate_stock_final_analysis
\* returns, the score is an integer in 0..100; a sum of sub-scores below 0
\* gives score 0 and the bottom grade D, a sum above 100 gives score 100 and
\* the top grade of the table, a sum inside the range is the score itself.
C1_ScoreClamped ==
    /\ Completed("generate_final_analysis") =>
         LET raw == CryptoRawScore(result.symbol, market_data, historical)
             v == result.out.value
         IN  /\ v.score \in 0..100
             /\ raw < 0 => v.score = 0 /\ v.grade = "D"
             /\ raw > 100 => v.score = 100 /\ v.grade = "A+"
             /\ raw \in 0..100 => v.score = raw
    /\ Completed("generate_stock_final_analysis") =>
         LET raw == StockRawScore(info, historical)
             v == result.out.value
         IN  /\ v.score \in 0..100
             /\ raw < 0 => v.score = 0 /\ v.grade = "D"
             /\ raw > 100 => v.score = 100 /\ v.grade = "A"
             /\ raw \in 0..100 => v.score = raw

\* a crypto analysis whose sub-scores sum below 0 was returned with score 0
C1_Witness ==
    /\ Completed("generate_final_analysis")
    /\ CryptoRawScore(result.symbol, market_data, historical) < 0
    /\ result.out.value.score = 0

\* C2: the grade is the entry of the asset class's threshold table for the
\* returned score: crypto >=90 A+, >=80 A, >=70 B+, >=60 B, >=50 C, else D;
\* equity >=85 A, >=70 B+, >=50 B, >=40 C, else D, and never A+.
C2_GradeTable ==
    /\ Completed("generate_final_analysis") =>
         LET sc == result.out.value.score
             g == result.out.value.grade
         IN  /\ sc >= 90 => g = "A+"
             /\ sc >= 80 /\ sc < 90 => g = "A"
             /\ sc >= 70 /\ sc < 80 => g = "B+"
             /\ sc >= 60 /\ sc < 70 => g = "B"
             /\ sc >= 50 /\ sc < 60 => g = "C"
             /\ sc < 50 => g = "D"
    /\ Completed("generate_stock_final_analysis") =>
         LET sc == result.out.value.score
             g == result.out.value.grade
         IN  /\ sc >= 85 => g = "A"
             /\ sc >= 70 /\ sc < 85 => g = "B+"
             /\ sc >= 50 /\ sc < 70 => g = "B"
             /\ sc >= 40 /\ sc < 50 => g = "C"
             /\ sc < 40 => g = "D"
             /\ g # "A+"

\* a crypto analysis was returned with a score exactly on a threshold
C2_Witness ==
    /\ Completed("generate_final_analysis")
    /\ result.out.value.score = 80
    /\ result.out.value.grade = "A"

\* C3: with max_supply absent or zero, calculate_scarcity_score returns
\* score 0 and the indeterminate description, whatever circulating_supply is.
C3_NoMaxSupply ==
    IsCall("calculate_scarcity_score")
      /\ market_data.max_supply \in {None, Some(0)} =>
        /\ Returned(result.out)
        /\ result.out.value.score = 0
        /\ result.out.value.description.text = "Indeterminate (No defined max supply)"

\* the call was made with max_supply zero and a positive circulating_supply
C3_Witness ==
    /\ Completed("calculate_scarcity_score")
    /\ market_data.max_supply = Some(0)
    /\ market_data.circulating_supply # None
    /\ market_data.circulating_supply[1] > 0

\* C4: the score returned by calculate_scarcity_score is in 0..10, and its
\* contribution to the crypto composite (score x 4) is at most 40.
C4_ScarcityRange ==
    /\ Completed("calculate_scarcity_score") => result.out.value.score \in 0..10
    /\ Completed("generate_final_analysis") =>
         ScarcityPart(calculate_scarcity_score(market_data).value.score).points <= 40

\* C5: calculate_scarcity_score returns a (score, description) pair for every
\* combination of absent, zero and positive supplies; it never raises.
C5_ScarcityNeverFails ==
    IsCall("calculate_scarcity_score") => Returned(result.out)

\* C6: with a current market cap of 0 and a non-zero price and circulating
\* supply, analyze_network_growth returns "N/A" for both growth multiples.
C6_ZeroCapNotApplicable ==
    IsCall("analyze_network_growth")
      /\ market_data.market_cap = Some(0)
      /\ Get(market_data.current_price, 0) # 0
      /\ Truthy(market_data.circulating_supply) =>
        /\ Returned(result.out)
        /\ result.out.value[2].text = "N/A"
        /\ result.out.value[3].text = "N/A"

\* C7: a snapshot without a market cap gets neither the +10 of the
\* 'market cap < $1B' modifier nor its reason.
C7_AbsentCapNotSmall ==
    Completed("generate_final_analysis") /\ market_data.market_cap = None =>
        ~InReasons(HighRewardPotential, result.out.value.reasons)

\* the usable pairs of a series: a previous value > 0
UsablePairs(s) == {i \in 2..Len(s) : s[i - 1] > 0}

IsTimeCall ==
    IsCall("predict_time_to_target") \/ IsCall("analyze_stock_growth_and_time")

\* the time string of either projector
TimeOut == IF IsCall("predict_time_to_target")
           THEN result.out.value ELSE result.out.value[1]

\* C8: with target <= current both projectors return their 'target at or
\* below current' string, for every series, also an absent one, and without
\* evaluating a logarithm.
C8_TargetMet ==
    IsTimeCall /\ result.target <= result.current =>
        /\ Returned(result.out)
        /\ ~TimeOut.log
        /\ IsCall("predict_time_to_target") =>
             TimeOut.text = "Target price is at or below the current price."
        /\ IsCall("analyze_stock_growth_and_time") =>
             /\ TimeOut.text = "Target is at or below current price."
             /\ result.out.value[2] = NA

\* predict_time_to_target was called with target = current and no series
C8_Witness ==
    /\ Completed("predict_time_to_target")
    /\ result.target = result.current
    /\ historical = None

\* C9: with target > current, a series with at least one usable pair whose
\* rates are all <= 0 gives the non-positive-growth string and no logarithm is
\* evaluated; a series with no usable pair gives the insufficient-data
\* string, so the emptiness check is the first of the two.
C9_NonPositiveGrowth ==
    IsTimeCall /\ result.target > result.current /\ historical # None =>
        LET s == historical[1]
        IN  /\ UsablePairs(s) # {} /\ (\A i \in UsablePairs(s) : s[i] <= s[i - 1]) =>
                /\ Returned(result.out)
                /\ ~TimeOut.log
                /\ IsCall("predict_time_to_target") => TimeOut.text = NonPositiveText
                /\ IsCall("analyze_stock_growth_and_time") =>
                     TimeOut.text = "Negative historical growth."
            /\ UsablePairs(s) = {} =>
                /\ Returned(result.out)
                /\ ~TimeOut.log
                /\ IsCall("predict_time_to_target") => TimeOut.text = NotEnoughText
                /\ IsCall("analyze_stock_growth_and_time") =>
                     TimeOut.text = "Not enough data for prediction."

\* predict_time_to_target was called with target > current and a flat series
C9_Witness ==
    /\ Completed("predict_time_to_target")
    /\ result.target > result.current
    /\ historical # None
    /\ Len(historical[1]) >= 2
    /\ \A i \in 2..Len(historical[1]) :
          historical[1][i - 1] > 0 /\ historical[1][i] = historical[1][i - 1]
    /\ TimeOut.text = NonPositiveText

\* the points and the reason the valuation table gives for a P/E ratio;
\* a P/E of exactly zero is outside the table
ValuationTable(pe) ==
    IF pe = None THEN <<0, "[?]", "Unknown Valuation: P/E ratio is not available.">>
    ELSE IF 0 < pe[1] /\ pe[1] < 15
    THEN <<40, "[+]", "Good Value (P/E %.2f): Stock appears undervalued.">>
    ELSE IF 15 <= pe[1] /\ pe[1] < 30
    THEN <<20, "[~]", "Fair Value (P/E %.2f): Stock seems reasonably priced.">>
    ELSE <<-10, "[-]", "High Valuation (P/E %.2f): Stock appears expensive.">>

ValuationMarkers == {"[+]", "[~]", "[-]", "[?]"}
ValuationTexts ==
    {GoodValue.text, FairValue.text, HighValuation.text, UnknownValuation.text}

\* C10: the valuation sub-score of generate_stock_final_analysis is the one
\* the P/E table gives (0<PE<15: +40 undervalued [+]; 15<=PE<30: +20 fair
\* value [~]; PE>=30 or negative: -10 expensive [-]; absent: 0, [?] unknown),
\* and exactly one valuation reason is appended, after the growth reasons.
C10_Valuation ==
    Completed("generate_stock_final_analysis") =>
        LET pe == info.trailingPE
            v == result.out.value
            growth == BusinessGrowthPart(historical)
            n == Len(v.reasons)
        IN  /\ Cardinality({i \in 1..n : v.reasons[i].text \in ValuationTexts}) = 1
            /\ n = Len(growth.reasons) + 1
            /\ v.reasons[n].text \in ValuationTexts
            /\ pe # Some(0) =>
                 /\ v.score = Max(0, Min(100, growth.points + ValuationTable(pe)[1]))
                 /\ v.reasons[n].marker = ValuationTable(pe)[2]
                 /\ v.reasons[n].text = ValuationTable(pe)[3]

\* a stock with a P/E of exactly 15 was analysed as fair value
C10_Witness ==
    /\ Completed("generate_stock_final_analysis")
    /\ info.trailingPE = Some(15)
    /\ InReasons(FairValue, result.out.value.reasons)

\* C11: for max_supply > 0 and a present circulating_supply the score is
\* (circulating_supply / max_supply) * 100 / 10 rounded to a nearest integer;
\* circulating_supply = max_supply gives 10, and 19 million of 21 million
\* gives 9.
C11_RoundedScore ==
    IsCall("calculate_scarcity_score")
      /\ Truthy(market_data.max_supply)
      /\ market_data.circulating_supply # None =>
        /\ Returned(result.out)
        /\ LET c == market_data.circulating_supply[1]
               m == market_data.max_supply[1]
               sc == result.out.value.score
               diff == 10 * c - sc * m
           IN  /\ 2 * diff <= m /\ -2 * diff <= m
               /\ c = m => sc = 10
               /\ c = 19 /\ m = 21 => sc = 9

\* the score of 19 million circulating out of 21 million was computed
C11_Witness ==
    /\ Completed("calculate_scarcity_score")
    /\ market_data.circulating_supply = Some(19)
    /\ market_data.max_supply = Some(21)
    /\ result.out.value.score = 9

ScarcityReasons == {StrongScarcity, ModerateScarcity, WeakScarcity}
GrowthReasons == {HighGrowth, PositiveGrowth, NegativeGrowth, NoNetworkGrowth}
CatalystReasons == {BuiltInCatalyst, HighRewardPotential, LimitedUpside}
Markers == {"[+]", "[~]", "[-]", "[?]"}

\* C12: the reasons of generate_final_analysis are one scarcity line, then
\* one growth line, then the catalyst lines, for every input, and every line
\* carries one of the four markers.
C12_ReasonsOrder ==
    Completed("generate_final_analysis") =>
        LET l == result.out.value.reasons
        IN  /\ Len(l) >= 2
            /\ l[1] \in ScarcityReasons
            /\ l[2] \in GrowthReasons
            /\ \A i \in 3..Len(l) : l[i] \in CatalystReasons
            /\ \A i \in 1..Len(l) : l[i].marker \in Markers

\* the class of a time string of either projector
TimeClass(text) ==
    CASE text \in {"Over 25 years at current growth rate.", "Over 25 years"} -> "over 25 years"
      [] text = "Approx. %.1f years" -> "years"
      [] text = "Approx. %.1f months" -> "months"
      [] text = "Approx. %.1f days" -> "days"
      [] OTHER -> "none"

\* C13: the projected period count t is classified the same way by both
\* projectors, by strict thresholds: t > 25*365 is 'over 25 years', else
\* t > 365 is years (t/365), else t > 30 is months (t/30), else days; so
\* t = 9125 is in years, t = 365 in months and t = 30 in days.
C13_TimeClasses ==
    IsTimeCall /\ result.days_to_target # None =>
        LET t == result.days_to_target[1]
            class == TimeClass(TimeOut.text)
        IN  /\ t > 9125 => class = "over 25 years" /\ TimeOut.amount = None
            /\ t > 365 /\ t <= 9125 =>
                 /\ class = "years"
                 /\ 2 * (10 * t - 365 * TimeOut.amount[1]) <= 365
                 /\ 2 * (365 * TimeOut.amount[1] - 10 * t) <= 365
            /\ t > 30 /\ t <= 365 =>
                 /\ class = "months"
                 /\ 2 * (10 * t - 30 * TimeOut.amount[1]) <= 30
                 /\ 2 * (30 * TimeOut.amount[1] - 10 * t) <= 30
            /\ t <= 30 => class = "days" /\ TimeOut.amount = Some(10 * t)

\* analyze_stock_growth_and_time reported a projection of exactly 9125 days
\* in years
C13_Witness ==
    /\ Completed("analyze_stock_growth_and_time")
    /\ result.days_to_target = Some(9125)
    /\ TimeOut.text = "Approx. %.1f years"
    /\ TimeOut.amount = Some(250)

\* the index of the k-th usable pair of s
KthUsable(s, k) ==
    CHOOSE i \in UsablePairs(s) : Cardinality({j \in UsablePairs(s) : j <= i}) = k

\* one rate (curr - prev) / prev per usable pair, in the order of the series
ExpectedRates(s) ==
    [k \in 1..Cardinality(UsablePairs(s)) |->
        <<s[KthUsable(s, k)] - s[KthUsable(s, k) - 1], s[KthUsable(s, k) - 1]>>]

RateCalls ==
    {"predict_time_to_target", "generate_final_analysis",
     "analyze_stock_growth_and_time", "generate_stock_final_analysis"}

\* C14: each of the four functions that extract growth rates yields, for the
\* series it is given, one rate (curr - prev) / prev per consecutive pair
\* with prev > 0, in order, skips the pairs with prev <= 0, and yields no
\* rate for a series of fewer than 2 points; so the four agree on every
\* series.
C14_SameRates ==
    result.op \in RateCalls /\ result.rates # None =>
        LET s == historical[1]
            rates == result.rates[1]
        IN  /\ rates = ExpectedRates(s)
            /\ Len(rates) = Cardinality(UsablePairs(s))
            /\ Len(s) < 2 => rates = <<>>

\* generate_final_analysis extracted the rates of a series that has both a
\* usable pair and a skipped one
C14_Witness ==
    /\ Completed("generate_final_analysis")
    /\ result.rates # None
    /\ Len(result.rates[1]) >= 1
    /\ Len(result.rates[1]) < Len(historical[1]) - 1

\* C15: in run_crypto_analysis, whenever the entered symbol has several
\* matches, the coin passed to display_crypto_analysis is one of the matches
\* of that symbol.
C15_ShownCoinMatchesSymbol ==
    session_state.page = "Analyze Crypto"
      /\ Len(CoinMatches(LowerStrip(widgets.symbol))) > 1
      /\ display.coin # None =>
        display.coin[1] \in Range(CoinMatches(LowerStrip(widgets.symbol)))

\* C16: every asset of the list that a screener shows has a price <= the
\* max_price of the 'Found N ... Under $max_price' message above it.
C16_FoundUnderMaxPrice ==
    /\ session_state.page = "Crypto Screener" /\ display.found # None =>
         \A i \in 1..Len(display.found[1].items) :
            display.found[1].items[i].current_price[1] <= display.found[1].max_price
    /\ session_state.page = "Stock Screener" /\ display.found # None =>
         \A i \in 1..Len(display.found[1].items) :
            display.found[1].items[i].currentPrice[1] <= display.found[1].max_price

====
